---- MODULE Spec2Model ----
(***************************************************************************)
(* VLSM subnet allocation (vlsmLogic.js with its helpers of binaryMap.js). *)
(*                                                                         *)
(* JavaScript numbers are modelled exactly.  A number is a record          *)
(* [hi, lo] standing for hi * 2^16 + lo with lo in 0..65535, so that       *)
(* values up to 2^32 and beyond (2^(32-cidr), network + size - 1) are      *)
(* computed without leaving the integers TLC can hold.  NaN is a           *)
(* number of its own.  The 32-bit operators (<<, &, >>>) wrap as           *)
(* ToInt32 / ToUint32 do.                                                  *)
(*                                                                         *)
(* Strings are modelled by what the code parses out of them: an IP string  *)
(* is the sequence of its octets as parseInt reads them (a malformed       *)
(* string has fewer than four, or an octet above 255), a prefix string is  *)
(* a token that is a number or not, and "ip/cidr" is a record of both.     *)
(***************************************************************************)
EXTENDS Integers, Sequences, FiniteSets, TLC

VARIABLES
    baseNetwork,        \* argument: the base network string "ip/cidr"
    hostRequirements,   \* argument: the list of host counts
    strategy,           \* argument: "first" or "last"
    fn,                 \* the function being executed, or "none"
    pc,                 \* its position
    validRequirements,  \* local of calculateVLSM / generateDetailedAnalysis
    sortedRequirements, \* local of calculateVLSM / generateDetailedAnalysis
    heap,               \* the fragment objects {network, used}, by reference
    availableNetworks,  \* local of performVLSMAllocation: references into heap
    results,            \* local of performVLSMAllocation
    allocationSteps,    \* local of performVLSMAllocation
    i,                  \* loop index of performVLSMAllocation (0-based)
    calls,              \* the completed calls, oldest first: what each caller received
    suspended           \* the call of a second caller, set aside while this one
                        \* runs: its arguments, locals and calls (<<>>: no such call)

vars == <<baseNetwork, hostRequirements, strategy, fn, pc, validRequirements,
          sortedRequirements, heap, availableNetworks, results, allocationSteps,
          i, calls, suspended>>

----------------------------------------------------------------------------
(* Bounds of the model *)

\* longest hostRequirements list of the combinatorial inputs
MaxReqs == 3
\* calls made one after another on the same arguments
MaxCalls == 3
\* largest targetCIDR - baseCIDR among the inputs (a split makes 2^bits subnets)
MaxBorrowedBits == 3

----------------------------------------------------------------------------
(* JavaScript numbers *)

Limb == 2^16

NaN == [hi |-> 0, lo |-> -1]

IsNaN(x) == x.lo = -1

\* the number with integer value n
Num(n) == [hi |-> n \div Limb, lo |-> n % Limb]

\* the integer value of a number known to fit
IntOf(x) == x.hi * Limb + x.lo

NAdd(x, y) ==
    IF IsNaN(x) \/ IsNaN(y) THEN NaN
    ELSE LET l == x.lo + y.lo
         IN  [hi |-> x.hi + y.hi + (l \div Limb), lo |-> l % Limb]

NSub(x, y) ==
    IF IsNaN(x) \/ IsNaN(y) THEN NaN
    ELSE LET l == x.lo - y.lo
         IN  [hi |-> x.hi - y.hi + (l \div Limb), lo |-> l % Limb]

\* x < y, x === y, x >= y: every comparison with NaN is false
NLess(x, y) ==
    /\ ~IsNaN(x) /\ ~IsNaN(y)
    /\ (x.hi < y.hi \/ (x.hi = y.hi /\ x.lo < y.lo))

NEq(x, y) == ~IsNaN(x) /\ ~IsNaN(y) /\ x = y

NGeq(x, y) == ~IsNaN(x) /\ ~IsNaN(y) /\ ~NLess(x, y)

\* Math.pow(2, k) for an integer k >= 0
Pow2(k) == IF k < 16 THEN [hi |-> 0, lo |-> 2^k] ELSE [hi |-> 2^(k - 16), lo |-> 0]

\* ToUint32 and ToInt32 of ECMAScript: NaN becomes 0, the rest wraps modulo 2^32
ToUint32(x) == IF IsNaN(x) THEN Num(0) ELSE [hi |-> x.hi % Limb, lo |-> x.lo]

ToInt32(x) ==
    LET u == ToUint32(x)
    IN  IF u.hi >= 32768 THEN [hi |-> u.hi - Limb, lo |-> u.lo] ELSE u

\* x << k: ToInt32(x) shifted left by k mod 32 bits, as a signed 32-bit value
ShiftLeft(x, k) ==
    LET u == ToUint32(x)
        s == k % 32
    IN  IF s >= 16
        THEN ToInt32([hi |-> (u.lo * 2^(s - 16)) % Limb, lo |-> 0])
        ELSE LET l == u.lo * 2^s
             IN  ToInt32([hi |-> (u.hi * 2^s + (l \div Limb)) % Limb, lo |-> l % Limb])

RECURSIVE AndBits(_, _)
AndBits(a, b) ==
    IF a = 0 \/ b = 0 THEN 0
    ELSE (a % 2) * (b % 2) + 2 * AndBits(a \div 2, b \div 2)

\* x & y, as a signed 32-bit value
BitAnd(x, y) ==
    LET u == ToUint32(x)
        v == ToUint32(y)
    IN  ToInt32([hi |-> AndBits(u.hi, v.hi), lo |-> AndBits(u.lo, v.lo)])

\* x >>> 0
Unsigned(x) == ToUint32(x)

----------------------------------------------------------------------------
(* Strings *)

\* a numeric string (or a number) that parseInt reads as n
Str(n) == [nan |-> FALSE, n |-> n]

\* a missing or non-numeric string: parseInt gives NaN
Undefined == [nan |-> TRUE, n |-> 0]

\* the string "ip/cidr"
Net(ip, cidr) == [ip |-> ip, cidr |-> cidr]

----------------------------------------------------------------------------
(* Address arithmetic *)

parseIP(ip) == ip

ipToInt(ip) ==
    LET octets == parseIP(ip)
    IN  IF Len(octets) < 4 THEN NaN
        ELSE NAdd(NAdd(NAdd(ShiftLeft(Num(octets[1]), 24),
                            ShiftLeft(Num(octets[2]), 16)),
                       ShiftLeft(Num(octets[3]), 8)),
                  Num(octets[4]))

intToIP(int) ==
    LET u == ToUint32(int)
    IN  <<u.hi \div 256, u.hi % 256, u.lo \div 256, u.lo % 256>>

getNetworkAddress(ip, cidr) ==
    LET ipInt      == ipToInt(ip)
        maskInt    == Unsigned(ShiftLeft(Num(-1), 32 - cidr))
        networkInt == Unsigned(BitAnd(ipInt, maskInt))
    IN  intToIP(networkInt)

getBroadcastAddress(networkIP, cidr) ==
    LET networkInt   == ipToInt(networkIP)
        hostBits     == 32 - cidr
        broadcastInt == Unsigned(NSub(NAdd(networkInt, Pow2(hostBits)), Num(1)))
    IN  intToIP(broadcastInt)

getFirstUsableIP(networkIP) == intToIP(NAdd(ipToInt(networkIP), Num(1)))

getLastUsableIP(broadcastIP) == intToIP(NSub(ipToInt(broadcastIP), Num(1)))

----------------------------------------------------------------------------
(* binaryMap.js *)

\* binaryMap.get(cidr): cidr ones followed by zeros, here as the 32-bit value
binaryMap(cidr) == NSub(Pow2(32), Pow2(32 - cidr))

cidrToSubnetMask(cidr) == intToIP(binaryMap(cidr))

cidrToWildcardMask(cidr) == intToIP(NSub(Pow2(32 - cidr), Num(1)))

getHostBits(cidr) == 32 - cidr

getTotalHosts(cidr) == Pow2(getHostBits(cidr))

\* a variant that counts the broadcast address as usable
usableHostsCountingBroadcast(cidr) == NSub(getTotalHosts(cidr), Num(1))

getUsableHosts(cidr) ==
    LET totalHosts == getTotalHosts(cidr)
        less2      == NSub(totalHosts, Num(2))
    IN  IF NLess(less2, Num(0)) THEN Num(0) ELSE less2

----------------------------------------------------------------------------
(* Sizing *)

\* the loop of findSuitableCIDR from cidr downwards; 0 stands for the throw
RECURSIVE findSuitableCIDRFrom(_, _)
findSuitableCIDRFrom(cidr, requiredHosts) ==
    IF cidr < 1 THEN 0
    ELSE IF NGeq(getUsableHosts(cidr), Num(requiredHosts)) THEN cidr
    ELSE findSuitableCIDRFrom(cidr - 1, requiredHosts)

\* a variant that settles for a /1 where the loop finds no prefix
findSuitableCIDROrSlash1(requiredHosts) ==
    IF findSuitableCIDRFrom(30, requiredHosts) = 0 THEN 1
    ELSE findSuitableCIDRFrom(30, requiredHosts)

findSuitableCIDR(requiredHosts) == findSuitableCIDRFrom(30, requiredHosts)

----------------------------------------------------------------------------
(* Array.prototype.sort *)

\* the pairs of positions of s
Positions(s) == (1..Len(s)) \X (1..Len(s))

\* The sort is stable (ECMAScript 2019): s ordered by the comparator, given
\* as the set `less` of the pairs <<j, k>> of positions for which it puts
\* s[j] before s[k]; elements it does not order keep their places relative
\* to each other.
StableSort(s, less) ==
    LET n      == Len(s)
        pos(k) == 1 + Cardinality({j \in 1..n :
                        \/ <<j, k>> \in less
                        \/ (<<k, j>> \notin less /\ j < k)})
    IN  [p \in 1..n |-> s[CHOOSE k \in 1..n : pos(k) = p]]

----------------------------------------------------------------------------
(* Arguments: requirement filtering and ordering *)

\* req && req > 0
IsValidRequirement(req) == ~req.nan /\ req.n # 0 /\ req.n > 0

\* the filter loop of calculateVLSM and of generateDetailedAnalysis, from k on
RECURSIVE filterRequirementsFrom(_, _)
filterRequirementsFrom(reqs, k) ==
    IF k > Len(reqs) THEN <<>>
    ELSE (IF IsValidRequirement(reqs[k])
          THEN <<[hosts |-> reqs[k].n, originalIndex |-> k - 1, networkNumber |-> k]>>
          ELSE <<>>) \o filterRequirementsFrom(reqs, k + 1)

\* (a, b) => b.hosts - a.hosts
byHostsDescending(a, b) == b.hosts - a.hosts < 0

\* a variant of the analysis' sort: fewest hosts first
sortHostsAscending(valid) ==
    StableSort(valid, {q \in Positions(valid) : valid[q[1]].hosts - valid[q[2]].hosts < 0})

\* a variant of the filter that numbers the entries it keeps, not the input
filterAndRenumber(reqs) ==
    [k \in 1..Len(filterRequirementsFrom(reqs, 1)) |->
        [hosts         |-> filterRequirementsFrom(reqs, 1)[k].hosts,
         originalIndex |-> k - 1,
         networkNumber |-> k]]

filterRequirements(reqs) == filterRequirementsFrom(reqs, 1)

\* a variant of the sort: most hosts first, the later of equal counts first
sortHostsDescendingLaterFirst(valid) ==
    StableSort(valid, {q \in Positions(valid) :
                          \/ valid[q[1]].hosts > valid[q[2]].hosts
                          \/ /\ valid[q[1]].hosts = valid[q[2]].hosts
                             /\ valid[q[1]].originalIndex > valid[q[2]].originalIndex})

\* a variant that processes the requirements in the order given
keepsInputOrder(valid) == valid

sortRequirements(valid) ==
    StableSort(valid, {q \in Positions(valid) : byHostsDescending(valid[q[1]], valid[q[2]])})

\* generateDetailedAnalysis repeats the filter and the sort in its own body
\* (lines 375-386 and 388-389)
analysisFilterRequirements(reqs) == filterRequirementsFrom(reqs, 1)

analysisSortRequirements(valid) ==
    StableSort(valid, {q \in Positions(valid) : byHostsDescending(valid[q[1]], valid[q[2]])})

\* a variant of the comparator: larger CIDR first
byCidrDescending(a, b) == b.cidr - a.cidr < 0

\* a variant of the final sort: by CIDR, ties by original index
sortByCidrThenIndex(res) ==
    StableSort(res, {q \in Positions(res) :
                        \/ res[q[1]].cidr < res[q[2]].cidr
                        \/ /\ res[q[1]].cidr = res[q[2]].cidr
                           /\ res[q[1]].originalIndex < res[q[2]].originalIndex})

\* (a, b) => a.cidr - b.cidr
byCidrAscending(a, b) == a.cidr - b.cidr < 0

sortResults(res) ==
    StableSort(res, {q \in Positions(res) : byCidrAscending(res[q[1]], res[q[2]])})

\* a variant of the validation that lets the prefixes 31 and 32 through
isInvalidBaseNetworkAbove32(network) ==
    \/ network.ip = <<>>
    \/ network.cidr.nan
    \/ network.cidr.n < 1
    \/ network.cidr.n > 32

\* !baseIP || isNaN(baseCIDRNum) || baseCIDRNum < 1 || baseCIDRNum > 30
isInvalidBaseNetwork(network) ==
    \/ network.ip = <<>>
    \/ network.cidr.nan
    \/ network.cidr.n < 1
    \/ network.cidr.n > 30

----------------------------------------------------------------------------
(* The pool of performVLSMAllocation *)

\* the pool as fragments: the objects its references point to now
Deref(refs) == [j \in 1..Len(refs) |-> heap[refs[j]]]

\* a variant of the test that takes only fragments larger than the subnet
canAccommodateLargerOnly(available, subnetCIDR) ==
    /\ ~available.used
    /\ ~available.network.cidr.nan
    /\ available.network.cidr.n < subnetCIDR

\* a variant of the test that does not skip used fragments
canAccommodateUsedToo(available, subnetCIDR) ==
    /\ ~available.network.cidr.nan
    /\ NGeq(Pow2(32 - available.network.cidr.n), Pow2(32 - subnetCIDR))
    /\ available.network.cidr.n <= subnetCIDR

\* parentSize >= subnetSize && parentCIDR <= subnetCIDR, for an unused fragment
canAccommodate(available, subnetCIDR) ==
    /\ ~available.used
    /\ ~available.network.cidr.nan
    /\ NGeq(Pow2(32 - available.network.cidr.n), Pow2(32 - subnetCIDR))
    /\ available.network.cidr.n <= subnetCIDR

\* a variant of the replacement test: the fragment found first is kept
keepsFirstFound(available, bestParent) == FALSE

\* a variant of the replacement test: lower CIDR, then lower address
isLargerNetwork(available, bestParent) ==
    \/ available.network.cidr.n < bestParent.network.cidr.n
    \/ /\ available.network.cidr.n = bestParent.network.cidr.n
       /\ NLess(ipToInt(getNetworkAddress(available.network.ip, available.network.cidr.n)),
                ipToInt(getNetworkAddress(bestParent.network.ip, bestParent.network.cidr.n)))

\* the replacement test of the search: lower address, then higher CIDR
isBetterParent(available, bestParent) ==
    LET parentCIDR       == available.network.cidr.n
        bestCIDR         == bestParent.network.cidr.n
        parentNetworkInt == ipToInt(getNetworkAddress(available.network.ip, parentCIDR))
        bestNetworkInt   == ipToInt(getNetworkAddress(bestParent.network.ip, bestCIDR))
    IN  \/ NLess(parentNetworkInt, bestNetworkInt)
        \/ (NEq(parentNetworkInt, bestNetworkInt) /\ parentCIDR > bestCIDR)

\* the search loop from position j on, bestParentIndex so far (0: none)
RECURSIVE findBestParentFrom(_, _, _, _)
findBestParentFrom(pool, subnetCIDR, j, bestParentIndex) ==
    IF j > Len(pool) THEN bestParentIndex
    ELSE LET take == /\ canAccommodate(pool[j], subnetCIDR)
                     /\ \/ bestParentIndex = 0
                        \/ isBetterParent(pool[j], pool[bestParentIndex])
         IN  findBestParentFrom(pool, subnetCIDR, j + 1,
                                IF take THEN j ELSE bestParentIndex)

findBestParent(pool, subnetCIDR) == findBestParentFrom(pool, subnetCIDR, 1, 0)

\* the loop of generateSubnetDivision: `remaining` subnets from currentInt on
RECURSIVE subnetDivisionFrom(_, _, _)
subnetDivisionFrom(currentInt, remaining, targetCIDR) ==
    IF remaining = 0 THEN <<>>
    ELSE LET networkIP   == intToIP(currentInt)
             broadcastIP == getBroadcastAddress(networkIP, targetCIDR)
             firstIP     == getFirstUsableIP(networkIP)
             lastIP      == getLastUsableIP(broadcastIP)
         IN  <<[network      |-> Net(networkIP, Str(targetCIDR)),
                firstIP      |-> Net(firstIP, Str(targetCIDR)),
                lastIP       |-> Net(lastIP, Str(targetCIDR)),
                broadcast    |-> Net(broadcastIP, Str(targetCIDR)),
                subnetMask   |-> cidrToSubnetMask(targetCIDR),
                wildcardMask |-> cidrToWildcardMask(targetCIDR)]>>
             \o subnetDivisionFrom(NAdd(currentInt, Pow2(32 - targetCIDR)),
                                   remaining - 1, targetCIDR)

\* a variant of the division: the loop runs once more than numSubnets
subnetDivisionAndOneMore(parentNetwork, targetCIDR) ==
    subnetDivisionFrom(ipToInt(getNetworkAddress(parentNetwork.ip, parentNetwork.cidr.n)),
                       2^(targetCIDR - parentNetwork.cidr.n) + 1, targetCIDR)

generateSubnetDivision(parentNetwork, targetCIDR) ==
    LET parentCIDRNum == parentNetwork.cidr.n
        numSubnets    == 2^(targetCIDR - parentCIDRNum)
    IN  subnetDivisionFrom(ipToInt(getNetworkAddress(parentNetwork.ip, parentCIDRNum)),
                           numSubnets, targetCIDR)

\* the entry pushed to results for `network`, assigned to `requirement`
subnetDetails(network, subnetCIDR, requirement) ==
    LET networkIP   == network.ip
        broadcastIP == getBroadcastAddress(networkIP, subnetCIDR)
        firstIP     == getFirstUsableIP(networkIP)
        lastIP      == getLastUsableIP(broadcastIP)
    IN  [network        |-> network,
         networkAddress |-> networkIP,
         firstIP        |-> Net(firstIP, Str(subnetCIDR)),
         lastIP         |-> Net(lastIP, Str(subnetCIDR)),
         broadcast      |-> Net(broadcastIP, Str(subnetCIDR)),
         subnetMask     |-> cidrToSubnetMask(subnetCIDR),
         wildcardMask   |-> cidrToWildcardMask(subnetCIDR),
         usableHosts    |-> IntOf(getUsableHosts(subnetCIDR)),
         requiredHosts  |-> requirement.hosts,
         cidr           |-> subnetCIDR,
         originalIndex  |-> requirement.originalIndex,
         networkNumber  |-> requirement.networkNumber]

\* a variant that assigns the first subnet whatever the strategy
alwaysLastSubnet(strat, allSubnets) == Len(allSubnets) - 1

alwaysFirstSubnet(strat, allSubnets) == 0

\* strategy === "last" ? allSubnets.length - 1 : 0   (0-based)
assignedSubnetIndexFor(strat, allSubnets) ==
    IF strat = "last" THEN Len(allSubnets) - 1 ELSE 0

\* the comparator of availableNetworks.sort, as "a sorts before b" over objects
poolOrder(a, b) ==
    IF a.used /\ ~b.used THEN FALSE
    ELSE IF ~a.used /\ b.used THEN TRUE
    ELSE IF a.used /\ b.used THEN FALSE
    ELSE LET aInt == ipToInt(a.network.ip)
             bInt == ipToInt(b.network.ip)
         IN  IF ~NEq(aInt, bInt)
             THEN NLess(aInt, bInt)
             ELSE (~a.network.cidr.nan /\ ~b.network.cidr.nan
                   /\ a.network.cidr.n - b.network.cidr.n < 0)

\* a variant of the end of the loop body that leaves the pool as it is
poolAsLeft(refs, objs) == refs

sortPool(refs, objs) ==
    StableSort(refs, {q \in Positions(refs) : poolOrder(objs[refs[q[1]]], objs[refs[q[2]]])})

\* a variant of the removal that leaves the parent in the pool
spliceNothing(refs, index) == refs

\* pool.splice(index, 1), index 1-based here
spliceOut(refs, index) ==
    [j \in 1..(Len(refs) - 1) |-> IF j < index THEN refs[j] ELSE refs[j + 1]]

\* The end of the loop body (lines 262-281): the pool is sorted, and the
\* iteration yields the heap, the pool, the pushed result and the pushed step.
finishStep(objs2, refs2, refs, bestParent, subnetCIDR, requirement, strat, allSubnets, assignedSubnetIndex, sorted) ==
    [heap   |-> objs2,
     pool   |-> sorted,
     result |-> subnetDetails(allSubnets[assignedSubnetIndex + 1].network,
                              subnetCIDR, requirement),
     step   |-> [requirement             |-> requirement,
                 parentNetwork           |-> bestParent.network,
                 parentCIDR              |-> bestParent.network.cidr.n,
                 targetCIDR              |-> subnetCIDR,
                 availableNetworksBefore |-> refs,
                 strategy                |-> strat,
                 allSubnets              |-> allSubnets,
                 assignedSubnetIndex     |-> assignedSubnetIndex,
                 availableNetworksAfter  |-> sorted]]

sortAndFinish(objs2, refs2, refs, bestParent, subnetCIDR, requirement, strat, allSubnets, assignedSubnetIndex) ==
    finishStep(objs2, refs2, refs, bestParent, subnetCIDR, requirement, strat,
               allSubnets, assignedSubnetIndex, sortPool(refs2, objs2))

\* a variant that puts back only the subnets after the assigned one
subnetsAfterAssigned(allSubnets, assignedSubnetIndex) ==
    SelectSeq([k \in 1..Len(allSubnets) |-> k], LAMBDA k : k > assignedSubnetIndex + 1)

\* the subnets of a split that go back to the pool, in order (lines 225-229)
remainingSubnets(allSubnets, assignedSubnetIndex) ==
    SelectSeq([k \in 1..Len(allSubnets) |-> k], LAMBDA k : k # assignedSubnetIndex + 1)

\* lines 193-229, given the subnets of the split and the one assigned
assignSubnet(objs, refs, bestParentIndex, subnetCIDR, requirement, strat, allSubnets, assignedSubnetIndex, others) ==
    sortAndFinish(objs \o [k \in 1..Len(others) |->
                             [network |-> allSubnets[others[k]].network,
                              used    |-> FALSE]],
                  spliceOut(refs, bestParentIndex)
                      \o [k \in 1..Len(others) |-> Len(objs) + k],
                  refs, objs[refs[bestParentIndex]], subnetCIDR, requirement, strat,
                  allSubnets, assignedSubnetIndex)

chooseSubnet(objs, refs, bestParentIndex, subnetCIDR, requirement, strat, allSubnets, assignedSubnetIndex) ==
    assignSubnet(objs, refs, bestParentIndex, subnetCIDR, requirement, strat,
                 allSubnets, assignedSubnetIndex,
                 remainingSubnets(allSubnets, assignedSubnetIndex))

\* lines 179-229: the parent is larger than needed
subdivideParent(objs, refs, bestParentIndex, subnetCIDR, requirement, strat, allSubnets) ==
    chooseSubnet(objs, refs, bestParentIndex, subnetCIDR, requirement, strat,
                 allSubnets, assignedSubnetIndexFor(strat, allSubnets))

\* lines 230-260: the parent has the prefix needed
assignDirectly(objs, refs, bestParentIndex, subnetCIDR, requirement, strat) ==
    sortAndFinish([objs EXCEPT ![refs[bestParentIndex]].used = TRUE], refs,
                  refs, objs[refs[bestParentIndex]], subnetCIDR, requirement, strat,
                  <<[network |-> objs[refs[bestParentIndex]].network]>>, 0)

\* One pass of the loop body once a parent is found (lines 165-281)
allocateFrom(objs, refs, bestParentIndex, subnetCIDR, requirement, strat) ==
    IF objs[refs[bestParentIndex]].network.cidr.n < subnetCIDR
    THEN subdivideParent(objs, refs, bestParentIndex, subnetCIDR, requirement, strat,
                         generateSubnetDivision(objs[refs[bestParentIndex]].network,
                                                subnetCIDR))
    ELSE assignDirectly(objs, refs, bestParentIndex, subnetCIDR, requirement, strat)

\* what the forEach of generateDetailedAnalysis writes for one step
narrateStep(step) ==
    LET hostBits     == 32 - step.targetCIDR
        borrowedBits == step.targetCIDR - step.parentCIDR
    IN  [networkNum    |-> step.requirement.networkNumber,
         requiredHosts |-> step.requirement.hosts,
         hostBits      |-> hostBits,
         parentNetwork |-> step.parentNetwork,
         parentCIDR    |-> step.parentCIDR,
         targetCIDR    |-> step.targetCIDR,
         borrowedBits  |-> borrowedBits,
         blockSize     |-> Pow2(hostBits),
         numSubnets    |-> 2^borrowedBits,
         listed        |-> IF borrowedBits = 0
                           THEN <<step.allSubnets[1].network>>
                           ELSE [k \in 1..Len(step.allSubnets) |->
                                    step.allSubnets[k].network],
         assigned      |-> IF borrowedBits = 0 THEN 1
                           ELSE step.assignedSubnetIndex + 1]

----------------------------------------------------------------------------
(* Calls *)

\* what the caller of a finished call holds: the value returned, or the error
\* thrown (for generateDetailedAnalysis: the error written into the report)
Returned(f, value) == [fn |-> f, status |-> "returned", error |-> "", value |-> value]

Thrown(f, error) == [fn |-> f, status |-> "thrown", error |-> error, value |-> <<>>]

ReportedError(f, error) ==
    [fn |-> f, status |-> "returned", error |-> error, value |-> <<>>]

\* The caller: calculateVLSM, then generateDetailedAnalysis on the same
\* arguments (uiHandler.js displays the analysis of what it calculated), then
\* again.  The analysis is not asked for a base network calculateVLSM refused.
NextCall ==
    IF calls = <<>> THEN "calculateVLSM"
    ELSE LET last == calls[Len(calls)]
         IN  IF last.fn = "calculateVLSM" /\ last.error # "InvalidBaseNetwork"
             THEN "generateDetailedAnalysis"
             ELSE "calculateVLSM"

FreshLocals ==
    /\ validRequirements' = <<>>
    /\ sortedRequirements' = <<>>
    /\ heap' = <<>>
    /\ availableNetworks' = <<>>
    /\ results' = <<>>
    /\ allocationSteps' = <<>>
    /\ i' = 0

Finish(record) ==
    /\ calls' = Append(calls, record)
    /\ fn' = "none"
    /\ pc' = "idle"

CallCalculateVLSM ==
    /\ fn = "none" /\ Len(calls) < MaxCalls /\ NextCall = "calculateVLSM"
    /\ fn' = "calculateVLSM"
    /\ pc' = "validate"
    /\ FreshLocals
    /\ UNCHANGED <<suspended, baseNetwork, hostRequirements, strategy, calls>>

CallGenerateDetailedAnalysis ==
    /\ fn = "none" /\ Len(calls) < MaxCalls /\ NextCall = "generateDetailedAnalysis"
    /\ fn' = "generateDetailedAnalysis"
    /\ pc' = "filter"
    /\ FreshLocals
    /\ UNCHANGED <<suspended, baseNetwork, hostRequirements, strategy, calls>>

\* calculateVLSM, lines 294-301
ValidateBaseNetwork ==
    /\ fn = "calculateVLSM" /\ pc = "validate"
    /\ IF isInvalidBaseNetwork(baseNetwork)
       THEN Finish(Thrown(fn, "InvalidBaseNetwork"))
       ELSE pc' = "filter" /\ UNCHANGED <<fn, calls>>
    /\ UNCHANGED <<suspended, baseNetwork, hostRequirements, strategy, validRequirements,
                   sortedRequirements, heap, availableNetworks, results,
                   allocationSteps, i>>

\* calculateVLSM, lines 303-319; generateDetailedAnalysis, lines 375-386
FilterRequirements ==
    /\ pc = "filter"
    /\ validRequirements' = IF fn = "calculateVLSM"
                             THEN filterRequirements(hostRequirements)
                             ELSE analysisFilterRequirements(hostRequirements)
    /\ IF fn = "calculateVLSM" /\ Len(validRequirements') = 0
       THEN Finish(Thrown(fn, "NoValidRequirements"))
       ELSE pc' = "sort" /\ UNCHANGED <<fn, calls>>
    /\ UNCHANGED <<suspended, baseNetwork, hostRequirements, strategy, sortedRequirements,
                   heap, availableNetworks, results, allocationSteps, i>>

\* calculateVLSM, lines 321-322; generateDetailedAnalysis, lines 388-389
SortRequirements ==
    /\ pc = "sort"
    /\ sortedRequirements' = IF fn = "calculateVLSM"
                              THEN sortRequirements(validRequirements)
                              ELSE analysisSortRequirements(validRequirements)
    /\ pc' = "allocate"
    /\ UNCHANGED <<suspended, baseNetwork, hostRequirements, strategy, fn, validRequirements,
                   heap, availableNetworks, results, allocationSteps, i, calls>>

\* performVLSMAllocation, lines 112-117
EnterPerformVLSMAllocation ==
    /\ pc = "allocate"
    /\ results' = <<>>
    /\ allocationSteps' = <<>>
    /\ heap' = <<[network |-> baseNetwork, used |-> FALSE]>>
    /\ availableNetworks' = <<1>>
    /\ i' = 0
    /\ pc' = "loop"
    /\ UNCHANGED <<suspended, baseNetwork, hostRequirements, strategy, fn, validRequirements,
                   sortedRequirements, calls>>

\* a variant of the catch that hands back the results collected so far
catchAndReturnResults(error) == Finish(Returned(fn, results))

\* a variant of the catch that rethrows in both functions
catchAndRethrow(error) == Finish(Thrown(fn, error))

\* the catch of the caller: calculateVLSM rethrows (lines 331-333),
\* generateDetailedAnalysis writes the message into the report (lines 458-460)
Catch(error) ==
    IF fn = "calculateVLSM"
    THEN Finish(Thrown(fn, error))
    ELSE Finish(ReportedError(fn, error))

\* a variant of the end of an iteration that stays at the same requirement
commitWithoutAdvancing(new) ==
    /\ heap' = new.heap
    /\ availableNetworks' = new.pool
    /\ results' = Append(results, new.result)
    /\ allocationSteps' = Append(allocationSteps, new.step)
    /\ i' = i
    /\ UNCHANGED <<fn, pc, calls>>

\* the iteration succeeded: its effects on the locals
CommitStep(new) ==
    /\ heap' = new.heap
    /\ availableNetworks' = new.pool
    /\ results' = Append(results, new.result)
    /\ allocationSteps' = Append(allocationSteps, new.step)
    /\ i' = i + 1
    /\ UNCHANGED <<fn, pc, calls>>

\* the iteration threw
ThrowFromStep(error) ==
    /\ Catch(error)
    /\ UNCHANGED <<heap, availableNetworks, results, allocationSteps, i>>

\* lines 161-281
StepWithParent(requirement, subnetCIDR, bestParentIndex) ==
    IF bestParentIndex = 0
    THEN ThrowFromStep("InsufficientSpace")
    ELSE CommitStep(allocateFrom(heap, availableNetworks, bestParentIndex,
                                 subnetCIDR, requirement, strategy))

\* lines 124-281
StepWithCIDR(requirement, subnetCIDR) ==
    IF subnetCIDR = 0
    THEN ThrowFromStep("UnsatisfiableHostCount")
    ELSE StepWithParent(requirement, subnetCIDR,
                        findBestParent(Deref(availableNetworks), subnetCIDR))

\* performVLSMAllocation, one iteration of the loop of lines 119-282
AllocationStep ==
    /\ pc = "loop" /\ i < Len(sortedRequirements)
    /\ StepWithCIDR(sortedRequirements[i + 1],
                    findSuitableCIDR(sortedRequirements[i + 1].hosts))
    /\ UNCHANGED <<suspended, baseNetwork, hostRequirements, strategy, validRequirements,
                   sortedRequirements>>

\* calculateVLSM, lines 325-330: the loop is over, sort and return
ReturnSortedResults ==
    /\ fn = "calculateVLSM" /\ pc = "loop" /\ i = Len(sortedRequirements)
    /\ results' = sortResults(results)
    /\ Finish(Returned(fn, results'))
    /\ UNCHANGED <<suspended, baseNetwork, hostRequirements, strategy, validRequirements,
                   sortedRequirements, heap, availableNetworks, allocationSteps, i>>

\* generateDetailedAnalysis, lines 393-457: the loop is over, narrate the steps
NarrateSteps ==
    /\ fn = "generateDetailedAnalysis" /\ pc = "loop" /\ i = Len(sortedRequirements)
    /\ Finish(Returned(fn, [k \in 1..Len(allocationSteps) |->
                               narrateStep(allocationSteps[k])]))
    /\ UNCHANGED <<suspended, baseNetwork, hostRequirements, strategy, validRequirements,
                   sortedRequirements, heap, availableNetworks, results,
                   allocationSteps, i>>

----------------------------------------------------------------------------
(* Two callers *)

\* a variant of callFrame in which the pool is not a local of the call: the
\* frame leaves out the pool, which the two calls then share
callFrameWithoutPool ==
    [baseNetwork        |-> baseNetwork,
     hostRequirements   |-> hostRequirements,
     strategy           |-> strategy,
     fn                 |-> fn,
     pc                 |-> pc,
     validRequirements  |-> validRequirements,
     sortedRequirements |-> sortedRequirements,
     results            |-> results,
     allocationSteps    |-> allocationSteps,
     i                  |-> i,
     calls              |-> calls]

\* What a call owns: its arguments, the locals of calculateVLSM /
\* generateDetailedAnalysis and of performVLSMAllocation (each declared inside
\* its function), and what its caller has received so far.
callFrame ==
    [baseNetwork        |-> baseNetwork,
     hostRequirements   |-> hostRequirements,
     strategy           |-> strategy,
     fn                 |-> fn,
     pc                 |-> pc,
     validRequirements  |-> validRequirements,
     sortedRequirements |-> sortedRequirements,
     heap               |-> heap,
     availableNetworks  |-> availableNetworks,
     results            |-> results,
     allocationSteps    |-> allocationSteps,
     i                  |-> i,
     calls              |-> calls]

\* the frame of a caller that has not called yet
idleFrame(a) ==
    [baseNetwork        |-> a.baseNetwork,
     hostRequirements   |-> a.hostRequirements,
     strategy           |-> a.strategy,
     fn                 |-> "none",
     pc                 |-> "idle",
     validRequirements  |-> <<>>,
     sortedRequirements |-> <<>>,
     heap               |-> <<>>,
     availableNetworks  |-> <<>>,
     results            |-> <<>>,
     allocationSteps    |-> <<>>,
     i                  |-> 0,
     calls              |-> <<>>]

\* the value a frame holds under `name`; what a frame does not hold is not
\* the call's own and stays as it is
held(frame, name, current) == IF name \in DOMAIN frame THEN frame[name] ELSE current

\* the call set aside goes on, the running one is set aside
resume(frame, setAside) ==
    /\ suspended' = setAside
    /\ baseNetwork' = held(frame, "baseNetwork", baseNetwork)
    /\ hostRequirements' = held(frame, "hostRequirements", hostRequirements)
    /\ strategy' = held(frame, "strategy", strategy)
    /\ fn' = held(frame, "fn", fn)
    /\ pc' = held(frame, "pc", pc)
    /\ validRequirements' = held(frame, "validRequirements", validRequirements)
    /\ sortedRequirements' = held(frame, "sortedRequirements", sortedRequirements)
    /\ heap' = held(frame, "heap", heap)
    /\ availableNetworks' = held(frame, "availableNetworks", availableNetworks)
    /\ results' = held(frame, "results", results)
    /\ allocationSteps' = held(frame, "allocationSteps", allocationSteps)
    /\ i' = held(frame, "i", i)
    /\ calls' = held(frame, "calls", calls)

\* the second caller takes its turn once the first has a call behind it
HandOver ==
    /\ suspended # <<>> /\ suspended.calls = <<>>
    /\ fn = "none" /\ calls # <<>>
    /\ resume(suspended, callFrame)

\* the scheduler passes from one caller to the other between any two steps
SwitchCaller ==
    /\ suspended # <<>>
    /\ resume(suspended, callFrame)

----------------------------------------------------------------------------
(* The arguments the model runs on *)

SeqsUpTo(S, n) == UNION {[1..k -> S] : k \in 0..n}

Args(base, reqs, strat) ==
    [baseNetwork |-> base, hostRequirements |-> reqs, strategy |-> strat]

Strategies == {"first", "last"}

\* Lists of host counts against small base networks: aligned, with host bits
\* set (192.168.1.5), below and above 128.0.0.0.
ComboBases ==
    {Net(<<192, 168, 1, 0>>, Str(27)), Net(<<192, 168, 1, 0>>, Str(28)),
     Net(<<192, 168, 1, 5>>, Str(27)), Net(<<10, 0, 0, 0>>, Str(26))}

PositiveCounts == {Str(2), Str(10), Str(14), Str(20)}

MixedCounts == {Undefined, Str(0), Str(-5), Str(20)}

ComboArgs ==
    {Args(b, r, s) : b \in ComboBases,
                     r \in SeqsUpTo(PositiveCounts, MaxReqs)
                           \cup SeqsUpTo(MixedCounts, MaxReqs),
                     s \in Strategies}

\* 2^k - 2 + d without computing 2^31
HostsAround(k, d) == (2^(k - 1) - 1) * 2 + d

\* One requirement at each capacity boundary 2^k - 2 (one below, at, one
\* above), against the base networks one bit larger than and equal to the
\* block that 2^k - 2 hosts need.
SizingArgs ==
    UNION {{Args(Net(<<128, 0, 0, 0>>, Str(p)), <<Str(HostsAround(k, d))>>, "first") :
               d \in {-1, 0, 1}, p \in {32 - k, 31 - k} \cap 1..30} : k \in 2..31}

\* Base networks that are not "four octets / prefix 1..30"
OddBases ==
    {Net(ip, c) : ip \in {<<192, 168, 1, 0>>, <<192, 168, 1>>, <<300, 168, 1, 0>>, <<>>},
                  c \in {Undefined, Str(0), Str(1), Str(28), Str(30), Str(31), Str(32)}}

OddArgs ==
    {Args(b, r, s) : b \in OddBases,
                     r \in {<<Str(10)>>, <<Str(10), Str(2)>>, <<Str(0)>>,
                            <<Str(HostsAround(31, 0))>>,
                            <<Str(10), Str(HostsAround(31, 1))>>},
                     s \in Strategies}

\* The documented examples
ExampleArgs ==
    {Args(Net(<<192, 168, 1, 0>>, Str(24)), <<Str(50), Str(30), Str(10)>>, s) :
        s \in Strategies}
    \cup {Args(Net(<<192, 168, 1, 0>>, Str(30)), <<Str(100)>>, "first"),
          Args(Net(<<192, 168, 1, 0>>, Str(24)), <<Str(0), Str(-5), Str(20)>>, "first")}

\* Three prefixes in one list: a split into four, a direct assignment, and
\* a split of another fragment
ThreeSizeArgs ==
    {Args(Net(<<192, 168, 1, 0>>, Str(27)), r, s) :
        r \in {<<Str(6), Str(6), Str(2)>>, <<Str(2), Str(6), Str(6)>>}, s \in Strategies}

\* The top of the address space: the last /29, aligned and with host bits set
TopOfSpaceArgs ==
    {Args(Net(ip, Str(29)), r, s) :
        ip \in {<<255, 255, 255, 248>>, <<255, 255, 255, 250>>},
        r \in {<<Str(6)>>, <<Str(2), Str(2)>>}, s \in Strategies}

\* A split makes 2^(targetCIDR - parentCIDR) subnets: the model runs on
\* arguments whose splits borrow at most MaxBorrowedBits bits at a time.
\* (A base network calculateVLSM refuses is never split.)
IsWithinBounds(a) ==
    \/ isInvalidBaseNetwork(a.baseNetwork)
    \/ \A k \in 1..Len(a.hostRequirements) :
          LET req == a.hostRequirements[k]
          IN  IsValidRequirement(req) /\ findSuitableCIDR(req.n) # 0
                 => findSuitableCIDR(req.n) - a.baseNetwork.cidr.n <= MaxBorrowedBits

\* The same base network and list under the two strategies, the caller
\* using "first" going first
StrategyPairs ==
    {<<Args(b, r, "first"), Args(b, r, "last")>> :
        b \in ComboBases, r \in SeqsUpTo(PositiveCounts \ {Str(14)}, MaxReqs)}
    \cup {<<Args(Net(<<192, 168, 1, 0>>, Str(24)), <<Str(50), Str(30), Str(10)>>, "first"),
            Args(Net(<<192, 168, 1, 0>>, Str(24)), <<Str(50), Str(30), Str(10)>>, "last")>>,
          <<Args(Net(<<192, 168, 1, 0>>, Str(30)), <<Str(100)>>, "first"),
            Args(Net(<<192, 168, 1, 0>>, Str(30)), <<Str(100)>>, "last")>>}

\* Two callers with arguments of their own: calls that succeed, calls that
\* run out of space, on the same base network and on different ones
InterleavedPairs ==
    {<<Args(Net(<<192, 168, 1, 0>>, Str(27)), r, s), b>> :
        r \in {<<Str(10), Str(14)>>, <<Str(20)>>, <<Str(10), Str(10), Str(10)>>,
               <<Str(2), Str(10)>>},
        s \in Strategies,
        b \in {Args(Net(<<10, 0, 0, 0>>, Str(26)), <<Str(20), Str(10), Str(2)>>, "first"),
               Args(Net(<<192, 168, 1, 0>>, Str(27)), <<Str(14), Str(10)>>, "last"),
               Args(Net(<<192, 168, 1, 0>>, Str(28)), <<Str(10), Str(2)>>, "first")}}

AllArgs ==
    {a \in ComboArgs \cup SizingArgs \cup OddArgs \cup ThreeSizeArgs \cup TopOfSpaceArgs :
        IsWithinBounds(a)}
    \cup ExampleArgs

Init ==
    /\ \E a \in AllArgs :
          /\ baseNetwork = a.baseNetwork
          /\ hostRequirements = a.hostRequirements
          /\ strategy = a.strategy
    /\ fn = "none"
    /\ pc = "idle"
    /\ validRequirements = <<>>
    /\ sortedRequirements = <<>>
    /\ heap = <<>>
    /\ availableNetworks = <<>>
    /\ results = <<>>
    /\ allocationSteps = <<>>
    /\ i = 0
    /\ calls = <<>>
    /\ suspended = <<>>

Next ==
    \/ CallCalculateVLSM
    \/ CallGenerateDetailedAnalysis
    \/ ValidateBaseNetwork
    \/ FilterRequirements
    \/ SortRequirements
    \/ EnterPerformVLSMAllocation
    \/ AllocationStep
    \/ ReturnSortedResults
    \/ NarrateSteps

Spec == Init /\ [][Next]_vars

\* The code is synchronous: a call that has begun takes its next step.
\* An iteration of the loop is possible exactly when the loop stands before
\* a requirement (it commits or throws, and changes i or calls either way),
\* so weak fairness of AllocationStep is written with that condition in the
\* place of ENABLED <<AllocationStep>>_vars.
SpecRunToCompletion ==
    /\ Init /\ [][Next]_vars
    /\ WF_vars(ValidateBaseNetwork) /\ WF_vars(FilterRequirements)
    /\ WF_vars(SortRequirements) /\ WF_vars(EnterPerformVLSMAllocation)
    /\ WF_vars(ReturnSortedResults) /\ WF_vars(NarrateSteps)
    /\ \/ []<>(~(pc = "loop" /\ i < Len(sortedRequirements)))
       \/ []<><<AllocationStep>>_vars

\* the first caller is idle with the arguments a, the second set aside with b
InitOfTwo(a, b) ==
    /\ baseNetwork = a.baseNetwork
    /\ hostRequirements = a.hostRequirements
    /\ strategy = a.strategy
    /\ fn = "none"
    /\ pc = "idle"
    /\ validRequirements = <<>>
    /\ sortedRequirements = <<>>
    /\ heap = <<>>
    /\ availableNetworks = <<>>
    /\ results = <<>>
    /\ allocationSteps = <<>>
    /\ i = 0
    /\ calls = <<>>
    /\ suspended = idleFrame(b)

\* Two callers, one after the other: the same arguments but for the strategy
InitStrategies ==
    \E p \in {q \in StrategyPairs : IsWithinBounds(q[1])} : InitOfTwo(p[1], p[2])

NextStrategies == Next \/ HandOver

SpecStrategies == InitStrategies /\ [][NextStrategies]_vars

\* Two callers whose steps interleave in any order
InitInterleaved == \E p \in InterleavedPairs : InitOfTwo(p[1], p[2])

NextInterleaved == Next \/ SwitchCaller

SpecInterleaved == InitInterleaved /\ [][NextInterleaved]_vars

----------------------------------------------------------------------------
(* Address ranges and capacities, as the properties below measure them *)

\* a dotted quad: four octets, each 0..255
IsWellFormed(ip) == Len(ip) = 4 /\ \A k \in 1..4 : ip[k] \in 0..255

\* the value of a dotted quad, as its upper and lower 16 bits
Addr(ip) == [hi |-> ip[1] * 256 + ip[2], lo |-> ip[3] * 256 + ip[4]]

AddrLeq(a, b) == a.hi < b.hi \/ (a.hi = b.hi /\ a.lo <= b.lo)

AddrSucc(a) == IF a.lo = Limb - 1 THEN [hi |-> a.hi + 1, lo |-> 0]
               ELSE [hi |-> a.hi, lo |-> a.lo + 1]

\* first and last address of the CIDR block of prefix p that holds address a
BlockFirst(a, p) ==
    IF p <= 16 THEN [hi |-> a.hi - (a.hi % 2^(16 - p)), lo |-> 0]
    ELSE [hi |-> a.hi, lo |-> a.lo - (a.lo % 2^(32 - p))]

BlockLast(a, p) ==
    IF p <= 16 THEN [hi |-> a.hi - (a.hi % 2^(16 - p)) + 2^(16 - p) - 1, lo |-> Limb - 1]
    ELSE [hi |-> a.hi, lo |-> a.lo - (a.lo % 2^(32 - p)) + 2^(32 - p) - 1]

Range(first, last) == [first |-> first, last |-> last]

\* the range an allocation result reports: [network, broadcast]
RangeOfResult(r) == Range(Addr(r.networkAddress), Addr(r.broadcast.ip))

\* the range a network string "a.b.c.d/p" denotes
RangeOfNetwork(n) ==
    Range(BlockFirst(Addr(n.ip), n.cidr.n), BlockLast(Addr(n.ip), n.cidr.n))

IsInside(r, outer) ==
    AddrLeq(outer.first, r.first) /\ AddrLeq(r.first, r.last) /\ AddrLeq(r.last, outer.last)

AreDisjoint(r, q) == ~AddrLeq(q.first, r.last) \/ ~AddrLeq(r.first, q.last)

\* 2^(32 - p) - 2 for p in 1..31
Capacity(p) == (2^(31 - p) - 1) * 2

\* the calls of calculateVLSM that returned a list
ReturnedLists ==
    {c \in 1..Len(calls) : calls[c].fn = "calculateVLSM" /\ calls[c].status = "returned"}

\* the positions of the host counts that are present and positive
PositivePositions ==
    {k \in 1..Len(hostRequirements) :
        ~hostRequirements[k].nan /\ hostRequirements[k].n > 0}

\* the prefix of the base network is missing, not a number, < 1 or > 30
HasInvalidPrefix ==
    baseNetwork.cidr.nan \/ baseNetwork.cidr.n < 1 \/ baseNetwork.cidr.n > 30

----------------------------------------------------------------------------
(* C1 *)

\* C1: for a base network of four octets 0..255 and prefix 1..30, the blocks
\* calculateVLSM returns are pairwise disjoint as ranges [network, broadcast],
\* and each range lies inside [networkAddress(base), broadcastAddress(base)].
C1_BlocksDisjointInsideBase ==
    IsWellFormed(baseNetwork.ip) =>
        \A c \in ReturnedLists :
            \A a \in 1..Len(calls[c].value) :
                /\ IsInside(RangeOfResult(calls[c].value[a]), RangeOfNetwork(baseNetwork))
                /\ \A b \in 1..Len(calls[c].value) :
                      a # b => AreDisjoint(RangeOfResult(calls[c].value[a]),
                                           RangeOfResult(calls[c].value[b]))

----------------------------------------------------------------------------
(* C2 *)

\* C2: every allocation result has the largest prefix p in 1..30 whose
\* capacity 2^(32-p) - 2 is at least the required host count (so exactly
\* 2^k - 2 hosts get prefix 32 - k), reports that capacity as usableHosts,
\* and never has prefix 31 or 32.
C2_SmallestAdequateBlock ==
    \A k \in 1..Len(results) :
        /\ results[k].cidr \in 1..30
        /\ results[k].network.cidr.n = results[k].cidr
        /\ Capacity(results[k].cidr) >= results[k].requiredHosts
        /\ results[k].cidr < 30 => Capacity(results[k].cidr + 1) < results[k].requiredHosts
        /\ results[k].usableHosts = Capacity(results[k].cidr)
        /\ \A e \in 2..31 :
              results[k].requiredHosts = Capacity(32 - e) => results[k].cidr = 32 - e

\* a requirement of exactly 2^k - 2 hosts was given a block cut out of a
\* larger base network
C2_Witness ==
    \E k \in 1..Len(results) :
        /\ results[k].requiredHosts = Capacity(results[k].cidr)
        /\ baseNetwork.cidr.n < results[k].cidr
        /\ results[k].cidr < 30

----------------------------------------------------------------------------
(* C3 *)

\* the ranges of the results so far and of the unused fragments of the pool
BlocksInHand ==
    {RangeOfResult(results[k]) : k \in 1..Len(results)}
    \cup {RangeOfNetwork(heap[availableNetworks[j]].network) :
             j \in {j \in 1..Len(availableNetworks) : ~heap[availableNetworks[j]].used}}

\* every block inside `whole`, no two overlapping, and the blocks chained
\* from the first address of `whole` to its last
IsPartition(blocks, whole) ==
    /\ \A r \in blocks : IsInside(r, whole)
    /\ \A r, q \in blocks : r # q => AreDisjoint(r, q)
    /\ \E r \in blocks : r.last = whole.last
    /\ \A r \in blocks :
          r.first = whole.first \/ \E q \in blocks : AddrSucc(q.last) = r.first

\* C3: after every step of the allocation loop, the ranges of the blocks
\* assigned so far and of the unused fragments of the pool partition the
\* range of the base network (a base network of four octets 0..255).
C3_PoolAndResultsPartitionBase ==
    (pc = "loop" /\ IsWellFormed(baseNetwork.ip)) =>
        /\ Cardinality(BlocksInHand) =
              Len(results) + Cardinality({j \in 1..Len(availableNetworks) :
                                             ~heap[availableNetworks[j]].used})
        /\ IsPartition(BlocksInHand, RangeOfNetwork(baseNetwork))

----------------------------------------------------------------------------
(* C4 *)

\* the prefix the host count h calls for: the largest p in 1..30 with
\* Capacity(p) >= h
IsSatisfiable(h) == h <= Capacity(1)

PrefixFor(h) == CHOOSE p \in 1..30 : Capacity(p) >= h /\ (p = 30 \/ Capacity(p + 1) < h)

\* the pool holds no unused fragment whose prefix is <= target
NoFragmentFits(target) ==
    \A j \in 1..Len(availableNetworks) :
        \/ heap[availableNetworks[j]].used
        \/ heap[availableNetworks[j]].network.cidr.nan
        \/ heap[availableNetworks[j]].network.cidr.n > target

\* calculateVLSM stands before a requirement that no fragment can hold
IsStuckBeforeRequirement ==
    /\ fn = "calculateVLSM" /\ pc = "loop" /\ i < Len(sortedRequirements)
    /\ IsSatisfiable(sortedRequirements[i + 1].hosts)
    /\ NoFragmentFits(PrefixFor(sortedRequirements[i + 1].hosts))

\* C4: when the loop of calculateVLSM comes to a requirement and the pool
\* holds no unused fragment with prefix <= the target prefix, the call ends
\* there with InsufficientSpace and hands back no result list, whatever was
\* assigned before; so does the call on 192.168.1.0/30 with [100].
C4_InsufficientSpaceFailsTheCall ==
    /\ [][IsStuckBeforeRequirement =>
             /\ calls' = Append(calls, [fn     |-> "calculateVLSM",
                                        status |-> "thrown",
                                        error  |-> "InsufficientSpace",
                                        value  |-> <<>>])
             /\ fn' = "none"]_vars
    /\ []((/\ baseNetwork = Net(<<192, 168, 1, 0>>, Str(30))
           /\ hostRequirements = <<Str(100)>>
           /\ calls # <<>>)
          => (calls[1].status = "thrown" /\ calls[1].error = "InsufficientSpace"))

\* a call that had assigned a block already ended with InsufficientSpace
C4_Witness ==
    /\ fn = "none" /\ Len(calls) = 1
    /\ calls[1].status = "thrown" /\ calls[1].error = "InsufficientSpace"
    /\ Len(results) >= 1

----------------------------------------------------------------------------
(* C5 *)

----------------------------------------------------------------------------
(* C6 *)

\* C6: the list calculateVLSM returns is in ascending order of prefix
\* length, largest block first.
C6_AscendingPrefix ==
    \A c \in ReturnedLists :
        \A a, b \in 1..Len(calls[c].value) :
            a < b => calls[c].value[a].cidr <= calls[c].value[b].cidr

\* a returned list with blocks of different prefixes
C6_Witness ==
    \E c \in ReturnedLists :
        \E a, b \in 1..Len(calls[c].value) : calls[c].value[a].cidr < calls[c].value[b].cidr

----------------------------------------------------------------------------
(* C7 *)

\* C7, as stated: entries of the returned list with the same prefix are in
\* ascending order of originalIndex.
C7_TiesByOriginalIndex ==
    \A c \in ReturnedLists :
        \A a, b \in 1..Len(calls[c].value) :
            (a < b /\ calls[c].value[a].cidr = calls[c].value[b].cidr)
                => calls[c].value[a].originalIndex < calls[c].value[b].originalIndex

\* C7, amended: entries of the returned list with the same prefix are in
\* descending order of required hosts, and those with the same required
\* hosts in ascending order of originalIndex.
C7_TiesInProcessingOrder ==
    \A c \in ReturnedLists :
        \A a, b \in 1..Len(calls[c].value) :
            (a < b /\ calls[c].value[a].cidr = calls[c].value[b].cidr) =>
                \/ calls[c].value[a].requiredHosts > calls[c].value[b].requiredHosts
                \/ /\ calls[c].value[a].requiredHosts = calls[c].value[b].requiredHosts
                   /\ calls[c].value[a].originalIndex < calls[c].value[b].originalIndex

\* two entries of one prefix, the later input (with more hosts) returned first
C7_Witness ==
    \E c \in ReturnedLists :
        \E a, b \in 1..Len(calls[c].value) :
            /\ a < b
            /\ calls[c].value[a].cidr = calls[c].value[b].cidr
            /\ calls[c].value[a].originalIndex > calls[c].value[b].originalIndex

----------------------------------------------------------------------------
(* C8 *)

\* nothing of the call but the validation has run
NothingExamined ==
    /\ validRequirements = <<>> /\ sortedRequirements = <<>>
    /\ heap = <<>> /\ availableNetworks = <<>>
    /\ results = <<>> /\ allocationSteps = <<>>

\* the calls of calculateVLSM that threw InvalidBaseNetwork
Refusals ==
    {c \in 1..Len(calls) : /\ calls[c].fn = "calculateVLSM"
                           /\ calls[c].status = "thrown"
                           /\ calls[c].error = "InvalidBaseNetwork"}

\* the calls of calculateVLSM that have ended
EndedCalls == {c \in 1..Len(calls) : calls[c].fn = "calculateVLSM"}

\* a base network with an invalid prefix stops calculateVLSM at its
\* validation, with InvalidBaseNetwork
InvalidPrefixIsRefused ==
    HasInvalidPrefix =>
        /\ fn = "calculateVLSM" => (pc = "validate" /\ NothingExamined)
        /\ EndedCalls \subseteq Refusals
        /\ (fn = "none" /\ calls # <<>>) => NothingExamined

\* C8, as stated: calculateVLSM fails with InvalidBaseNetwork, before any
\* requirement is examined or any allocation attempted, when the prefix of
\* the base network is missing, not a number, < 1 or > 30; for every prefix
\* in 1..30 the validation passes.
C8_PrefixAloneDecides ==
    /\ InvalidPrefixIsRefused
    /\ ~HasInvalidPrefix => Refusals = {}

\* C8, amended: as stated, but for every prefix in 1..30 the validation
\* passes when the address part of the base network is not empty (with an
\* empty address part it fails with InvalidBaseNetwork all the same).
C8_PrefixAndPresenceDecide ==
    /\ InvalidPrefixIsRefused
    /\ (~HasInvalidPrefix /\ baseNetwork.ip # <<>>) => Refusals = {}
    /\ (~HasInvalidPrefix /\ baseNetwork.ip = <<>>) =>
          /\ fn = "calculateVLSM" => (pc = "validate" /\ NothingExamined)
          /\ EndedCalls \subseteq Refusals

\* two calls on a well-formed address with prefix 31, both refused
C8_Witness ==
    /\ baseNetwork.cidr = Str(31) /\ IsWellFormed(baseNetwork.ip)
    /\ fn = "none" /\ Len(calls) = 2 /\ Refusals = {1, 2}

----------------------------------------------------------------------------
(* C9 *)

\* C9: a base network whose address part is not four octets 0..255 (an
\* octet 300, three octets) makes calculateVLSM fail with
\* InvalidBaseNetwork.
C9_MalformedAddressIsRefused ==
    ~IsWellFormed(baseNetwork.ip) => EndedCalls \subseteq Refusals

----------------------------------------------------------------------------
(* C10 *)

\* C10: calculateVLSM drops the host counts that are absent, 0 or negative
\* before sizing; the list it returns has one entry for each positive host
\* count and no other, with originalIndex the count's position in the
\* input (from 0), networkNumber that position + 1 and requiredHosts the
\* count; with no positive host count (and a base network that passes) the
\* call fails with NoValidRequirements.
C10_OnlyPositiveCountsKeepTheirPlace ==
    \A c \in EndedCalls \ Refusals :
        /\ PositivePositions = {} =>
              (calls[c].status = "thrown" /\ calls[c].error = "NoValidRequirements")
        /\ calls[c].error = "NoValidRequirements" => PositivePositions = {}
        /\ calls[c].status = "returned" =>
              /\ Len(calls[c].value) = Cardinality(PositivePositions)
              /\ \A k \in PositivePositions :
                    \E a \in 1..Len(calls[c].value) :
                        /\ calls[c].value[a].originalIndex = k - 1
                        /\ calls[c].value[a].networkNumber = k
                        /\ calls[c].value[a].requiredHosts = hostRequirements[k].n

\* [0, -5, 20] gave the one entry for 20, with originalIndex 2
C10_Witness ==
    /\ hostRequirements = <<Str(0), Str(-5), Str(20)>>
    /\ \E c \in ReturnedLists :
          /\ Len(calls[c].value) = 1
          /\ calls[c].value[1].originalIndex = 2
          /\ calls[c].value[1].requiredHosts = 20

----------------------------------------------------------------------------
(* C11 *)

\* calculateVLSM stands before a requirement larger than a /1 can hold
IsBeforeOversizedRequirement ==
    /\ fn = "calculateVLSM" /\ pc = "loop" /\ i < Len(sortedRequirements)
    /\ ~IsSatisfiable(sortedRequirements[i + 1].hosts)

\* a positive host count of the input exceeds the capacity of a /1
HasOversizedCount ==
    \E k \in PositivePositions : ~IsSatisfiable(hostRequirements[k].n)

\* C11: a requirement of more than 2^31 - 2 hosts makes calculateVLSM fail
\* with UnsatisfiableHostCount; the failure comes from the search for the
\* prefix, with the pool and the results as they were, and such a call
\* never ends with InsufficientSpace.
C11_OversizedCountIsUnsatisfiable ==
    /\ [][IsBeforeOversizedRequirement =>
             /\ calls' = Append(calls, [fn     |-> "calculateVLSM",
                                        status |-> "thrown",
                                        error  |-> "UnsatisfiableHostCount",
                                        value  |-> <<>>])
             /\ heap' = heap /\ availableNetworks' = availableNetworks
             /\ results' = results /\ allocationSteps' = allocationSteps]_vars
    /\ [](HasOversizedCount =>
             \A c \in EndedCalls \ Refusals :
                 calls[c].status = "thrown" /\ calls[c].error = "UnsatisfiableHostCount")

\* 2^31 - 1 hosts next to 10 hosts, against a /28 that neither would make
\* do with: the call ended with UnsatisfiableHostCount
C11_Witness ==
    /\ hostRequirements = <<Str(10), Str(Capacity(1) + 1)>>
    /\ baseNetwork = Net(<<192, 168, 1, 0>>, Str(28))
    /\ fn = "none" /\ Len(calls) = 1
    /\ calls[1].error = "UnsatisfiableHostCount"

----------------------------------------------------------------------------
(* C12 *)

\* this step of the loop assigns a block (it pushes one result)
IsAssigningStep == pc = "loop" /\ Len(results') = Len(results) + 1

\* the positions of the pool whose fragment the step takes out of the pool
TakenOut ==
    {j \in 1..Len(availableNetworks) :
        \A k \in 1..Len(availableNetworks') : availableNetworks'[k] # availableNetworks[j]}

\* the positions of the pool after the step whose fragment the step put in
PutIn ==
    {k \in 1..Len(availableNetworks') :
        \A j \in 1..Len(availableNetworks) : availableNetworks[j] # availableNetworks'[k]}

\* the positions of the pool whose fragment the step marks used
MarkedUsed ==
    {j \in 1..Len(availableNetworks) :
        ~heap[availableNetworks[j]].used /\ heap'[availableNetworks[j]].used}

\* the step assigns the fragment at position j as it is
AssignsWhole(j, target) ==
    /\ heap[availableNetworks[j]].network.cidr.n = target
    /\ TakenOut = {} /\ PutIn = {} /\ MarkedUsed = {j}
    /\ results'[Len(results')].network = heap[availableNetworks[j]].network
    /\ results'[Len(results')].cidr = target

\* the step splits the fragment at position j: the assigned block and the
\* fragments put in, all unused and of the target prefix, make up the
\* parent's range, the assigned block at its low or high end
AssignsChildOf(j, target) ==
    /\ heap[availableNetworks[j]].network.cidr.n < target
    /\ TakenOut = {j} /\ MarkedUsed = {}
    /\ results'[Len(results')].cidr = target
    /\ results'[Len(results')].network.cidr.n = target
    /\ \A k \in PutIn : /\ ~heap'[availableNetworks'[k]].used
                        /\ heap'[availableNetworks'[k]].network.cidr.n = target
    /\ Cardinality(PutIn) = 2^(target - heap[availableNetworks[j]].network.cidr.n) - 1
    /\ IsPartition({RangeOfResult(results'[Len(results')])}
                      \cup {RangeOfNetwork(heap'[availableNetworks'[k]].network) : k \in PutIn},
                   RangeOfNetwork(heap[availableNetworks[j]].network))
    /\ IF strategy = "last"
       THEN RangeOfResult(results'[Len(results')]).last
               = RangeOfNetwork(heap[availableNetworks[j]].network).last
       ELSE RangeOfResult(results'[Len(results')]).first
               = RangeOfNetwork(heap[availableNetworks[j]].network).first

\* C12: a step that assigns a block (base address of four octets 0..255)
\* either takes a fragment of the target prefix whole, under either
\* strategy, or splits a fragment of smaller prefix, assigns its
\* lowest-address child under "first" and its highest-address child under
\* "last", and puts every other child into the pool as an unused fragment.
C12_ChildByStrategyOthersPutBack ==
    [][(IsAssigningStep /\ IsWellFormed(baseNetwork.ip)) =>
          \E j \in 1..Len(availableNetworks) :
              \/ AssignsWhole(j, PrefixFor(sortedRequirements[i + 1].hosts))
              \/ AssignsChildOf(j, PrefixFor(sortedRequirements[i + 1].hosts))]_vars

\* under "last" a fragment was split into four or more and the highest
\* child assigned
C12_Witness ==
    /\ fn = "calculateVLSM" /\ pc = "loop" /\ strategy = "last"
    /\ \E k \in 1..Len(allocationSteps) :
          /\ Len(allocationSteps[k].allSubnets) >= 4
          /\ allocationSteps[k].assignedSubnetIndex = Len(allocationSteps[k].allSubnets) - 1

----------------------------------------------------------------------------
(* C13 *)

\* the entry of a result list for `hosts` hosts: prefix, capacity, network
IsEntry(r, hosts, cidr, usable, ip) ==
    /\ r.requiredHosts = hosts /\ r.cidr = cidr /\ r.usableHosts = usable
    /\ r.network = Net(ip, Str(cidr)) /\ r.networkAddress = ip

IsExampleA ==
    /\ baseNetwork = Net(<<192, 168, 1, 0>>, Str(24))
    /\ hostRequirements = <<Str(50), Str(30), Str(10)>>

\* C13: for 192.168.1.0/24, [50, 30, 10] and strategy "first" calculateVLSM
\* returns three entries, in this order: 192.168.1.0/26 (62 usable) for 50
\* hosts, 192.168.1.64/27 (30 usable) for 30 hosts and 192.168.1.96/28 (14
\* usable) for 10 hosts; the requirements are processed in the order 50, 30,
\* 10.
C13_ExampleAFirst ==
    (IsExampleA /\ strategy = "first") =>
        /\ \A c \in EndedCalls :
              /\ calls[c].status = "returned"
              /\ Len(calls[c].value) = 3
              /\ IsEntry(calls[c].value[1], 50, 26, 62, <<192, 168, 1, 0>>)
              /\ IsEntry(calls[c].value[2], 30, 27, 30, <<192, 168, 1, 64>>)
              /\ IsEntry(calls[c].value[3], 10, 28, 14, <<192, 168, 1, 96>>)
        /\ \A k \in 1..Len(allocationSteps) :
              allocationSteps[k].requirement.hosts = <<50, 30, 10>>[k]

\* the call on Example A returned
C13_Witness ==
    /\ IsExampleA /\ strategy = "first"
    /\ fn = "none" /\ Len(calls) = 1 /\ calls[1].status = "returned"
    /\ Len(allocationSteps) = 3

----------------------------------------------------------------------------
(* C14 *)

\* the caller using "last" and the caller using "first" on the same base
\* network and list have each a call of calculateVLSM behind them
BothStrategiesTried ==
    /\ suspended # <<>>
    /\ strategy = "last" /\ suspended.strategy = "first"
    /\ baseNetwork = suspended.baseNetwork
    /\ hostRequirements = suspended.hostRequirements
    /\ calls # <<>> /\ suspended.calls # <<>>

\* the entries of two result lists for one requirement, of the same size
IsSameSizing(r, q) ==
    /\ r.networkNumber = q.networkNumber
    /\ r.originalIndex = q.originalIndex
    /\ r.requiredHosts = q.requiredHosts
    /\ r.cidr = q.cidr
    /\ r.usableHosts = q.usableHosts

----------------------------------------------------------------------------
(* C15 *)

\* what one caller received: its calls of one function all ended alike,
\* and its analyses assigned the blocks its calls of calculateVLSM returned
IsUndisturbed(log) ==
    \A a, b \in 1..Len(log) :
        /\ log[a].fn = log[b].fn => log[a] = log[b]
        /\ (/\ log[a].fn = "calculateVLSM" /\ log[a].status = "returned"
            /\ log[b].fn = "generateDetailedAnalysis") =>
              /\ log[b].error = ""
              /\ Len(log[b].value) = Len(log[a].value)
              /\ \A r \in 1..Len(log[a].value) :
                    \E t \in 1..Len(log[b].value) :
                        /\ log[b].value[t].networkNum = log[a].value[r].networkNumber
                        /\ log[b].value[t].listed[log[b].value[t].assigned]
                              = log[a].value[r].network

\* what the call on 192.168.1.0/27 with [10, 14] returns when run alone
IsResultOfTenAndFourteen(record) ==
    /\ record.status = "returned" /\ Len(record.value) = 2
    /\ IsEntry(record.value[1], 14, 28, 14, <<192, 168, 1, 0>>)
    /\ IsEntry(record.value[2], 10, 28, 14, <<192, 168, 1, 16>>)

----------------------------------------------------------------------------
(* C16 *)

\* the allocation has gone through all the requirements
IsAllocationComplete ==
    /\ pc = "loop" /\ i = Len(sortedRequirements)

\* C16: the steps of the trace are in descending order of host count, steps
\* of equal host count in ascending order of originalIndex; when the
\* allocation has gone through, the trace has exactly one step for each
\* positive host count of the input; and the list the caller passed stays
\* as it was.
C16_DescendingHostsStableTies ==
    /\ [](\A k \in 1..Len(allocationSteps) - 1 :
             \/ allocationSteps[k].requirement.hosts
                   > allocationSteps[k + 1].requirement.hosts
             \/ /\ allocationSteps[k].requirement.hosts
                      = allocationSteps[k + 1].requirement.hosts
                /\ allocationSteps[k].requirement.originalIndex
                      < allocationSteps[k + 1].requirement.originalIndex)
    /\ [](IsAllocationComplete =>
             /\ Len(allocationSteps) = Cardinality(PositivePositions)
             /\ \A p \in PositivePositions :
                   \E k \in 1..Len(allocationSteps) :
                       /\ allocationSteps[k].requirement.originalIndex = p - 1
                       /\ allocationSteps[k].requirement.hosts = hostRequirements[p].n)
    /\ [][hostRequirements' = hostRequirements]_vars

\* a list given in another order than it is processed in, with two equal
\* counts, has gone through
C16_Witness ==
    /\ IsAllocationComplete /\ Len(allocationSteps) = 3
    /\ hostRequirements[1].n < hostRequirements[2].n
    /\ allocationSteps[2].requirement.hosts = allocationSteps[3].requirement.hosts

----------------------------------------------------------------------------
(* C17 *)

\* the loop stands before a requirement that has a prefix (base address of
\* four octets 0..255)
IsBeforeRequirement ==
    /\ pc = "loop" /\ i < Len(sortedRequirements)
    /\ IsSatisfiable(sortedRequirements[i + 1].hosts)
    /\ IsWellFormed(baseNetwork.ip)

\* the positions of the pool that hold an unused fragment of prefix <= target
Adequate(target) ==
    {j \in 1..Len(availableNetworks) :
        /\ ~heap[availableNetworks[j]].used
        /\ heap[availableNetworks[j]].network.cidr.n <= target}

\* the first address of the fragment at position j of the pool
FirstOf(j) == RangeOfNetwork(heap[availableNetworks[j]].network).first

\* the position of the pool the step took its block from
ChosenBy(j) == TakenOut \cup MarkedUsed = {j}

\* no adequate fragment starts below the one at j, and of those that start
\* where it does none has a larger prefix
IsLowestAdequate(j, target) ==
    /\ j \in Adequate(target)
    /\ \A k \in Adequate(target) :
          /\ AddrLeq(FirstOf(j), FirstOf(k))
          /\ FirstOf(k) = FirstOf(j) =>
                heap[availableNetworks[k]].network.cidr.n
                   <= heap[availableNetworks[j]].network.cidr.n

\* the ways of storing a pool of n fragments that are tried: every order
\* for n <= 4, the reverse order and every rotation for n > 4
Rearrangements(n) ==
    IF n <= 4
    THEN {f \in [1..n -> 1..n] : \A a, b \in 1..n : a # b => f[a] # f[b]}
    ELSE {[j \in 1..n |-> n + 1 - j]}
         \cup {[j \in 1..n |-> ((j + a) % n) + 1] : a \in 1..n}

\* the search finds in the pool stored in the order f the fragment it finds
\* in the pool as it is stored
FindsTheSame(pool, f, target) ==
    IF findBestParent(pool, target) = 0
    THEN findBestParent([j \in 1..Len(pool) |-> pool[f[j]]], target) = 0
    ELSE /\ findBestParent([j \in 1..Len(pool) |-> pool[f[j]]], target) # 0
         /\ f[findBestParent([j \in 1..Len(pool) |-> pool[f[j]]], target)]
               = findBestParent(pool, target)

\* C17: a step that assigns a block (base address of four octets 0..255)
\* takes it from the unused fragment of prefix <= the target prefix that has
\* the lowest network address, of several at that address the one of the
\* largest prefix; a used fragment or one of larger prefix than the target
\* is never taken; and the search finds the same fragment in whatever order
\* the pool is stored.
C17_LowestAddressAdequateParent ==
    /\ [][(IsAssigningStep /\ IsWellFormed(baseNetwork.ip)) =>
             \E j \in 1..Len(availableNetworks) :
                 /\ ChosenBy(j)
                 /\ IsLowestAdequate(j, PrefixFor(sortedRequirements[i + 1].hosts))
                 /\ allocationSteps'[Len(allocationSteps')].parentNetwork
                       = heap[availableNetworks[j]].network]_vars
    /\ [](IsBeforeRequirement =>
             \A f \in Rearrangements(Len(availableNetworks)) :
                 FindsTheSame(Deref(availableNetworks), f,
                              PrefixFor(sortedRequirements[i + 1].hosts)))

\* the last step found in the pool a fragment used before and two adequate
\* ones, and took the lower of the two
C17_Witness ==
    /\ pc = "loop" /\ IsWellFormed(baseNetwork.ip) /\ allocationSteps # <<>>
    /\ \E u, a, b \in 1..Len(allocationSteps[Len(allocationSteps)].availableNetworksBefore) :
          /\ heap[allocationSteps[Len(allocationSteps)].availableNetworksBefore[u]].used
          /\ heap[allocationSteps[Len(allocationSteps)].availableNetworksBefore[u]].network
                # allocationSteps[Len(allocationSteps)].parentNetwork
          /\ heap[allocationSteps[Len(allocationSteps)].availableNetworksBefore[a]].network
                = allocationSteps[Len(allocationSteps)].parentNetwork
          /\ ~heap[allocationSteps[Len(allocationSteps)].availableNetworksBefore[b]].used
          /\ heap[allocationSteps[Len(allocationSteps)].availableNetworksBefore[b]].network.cidr.n
                <= allocationSteps[Len(allocationSteps)].targetCIDR
          /\ a # b

----------------------------------------------------------------------------
(* C18 *)

\* C18: a step that assigns a block (base address of four octets 0..255)
\* takes it from a smallest adequate fragment: no unused fragment of prefix
\* <= the target prefix has a larger prefix than the fragment taken.
C18_ChosenParentIsTightest ==
    [][(IsAssigningStep /\ IsWellFormed(baseNetwork.ip)) =>
          \E j \in 1..Len(availableNetworks) :
              /\ ChosenBy(j)
              /\ \A k \in Adequate(PrefixFor(sortedRequirements[i + 1].hosts)) :
                    heap[availableNetworks[k]].network.cidr.n
                       <= heap[availableNetworks[j]].network.cidr.n]_vars

\* the last step found in the pool an unused fragment larger than the one
\* it took
C18_Witness ==
    /\ pc = "loop" /\ IsWellFormed(baseNetwork.ip) /\ allocationSteps # <<>>
    /\ \E b \in 1..Len(allocationSteps[Len(allocationSteps)].availableNetworksBefore) :
          /\ ~heap[allocationSteps[Len(allocationSteps)].availableNetworksBefore[b]].used
          /\ heap[allocationSteps[Len(allocationSteps)].availableNetworksBefore[b]].network.cidr.n
                < allocationSteps[Len(allocationSteps)].parentCIDR

----------------------------------------------------------------------------
(* C19 *)

\* the blocks of the list are of prefix t, each given by its first address,
\* the first at the first address of the parent, each next one where the
\* one before ends, the last ending where the parent ends
IsDivisionOf(subnets, parent, t) ==
    /\ \A m \in 1..Len(subnets) :
          /\ subnets[m].network.cidr.n = t
          /\ Addr(subnets[m].network.ip) = RangeOfNetwork(subnets[m].network).first
          /\ Addr(subnets[m].broadcast.ip) = RangeOfNetwork(subnets[m].network).last
    /\ RangeOfNetwork(subnets[1].network).first = RangeOfNetwork(parent).first
    /\ \A m \in 1..Len(subnets) - 1 :
          RangeOfNetwork(subnets[m + 1].network).first
             = AddrSucc(RangeOfNetwork(subnets[m].network).last)
    /\ RangeOfNetwork(subnets[Len(subnets)].network).last = RangeOfNetwork(parent).last

\* the step split its parent
IsSplit(step) == step.targetCIDR > step.parentCIDR

\* the narrations of the calls of generateDetailedAnalysis that returned
Narrations ==
    {calls[c].value : c \in {c \in 1..Len(calls) :
                                /\ calls[c].fn = "generateDetailedAnalysis"
                                /\ calls[c].status = "returned"}}

\* C19: every step of the trace (base address of four octets 0..255) lists
\* 2^(targetCIDR - parentCIDR) blocks; when the parent is split these are of
\* the target prefix, in ascending order, contiguous from the parent's first
\* address to its last, and the parent is no longer in the pool after the
\* step; a direct assignment lists one block; and the number of subnets the
\* analysis prints for a step is the number of blocks it lists for it.
C19_SubdivisionYieldsAllChildren ==
    /\ IsWellFormed(baseNetwork.ip) =>
          \A k \in 1..Len(allocationSteps) :
              /\ Len(allocationSteps[k].allSubnets)
                    = 2^(allocationSteps[k].targetCIDR - allocationSteps[k].parentCIDR)
              /\ ~IsSplit(allocationSteps[k]) => Len(allocationSteps[k].allSubnets) = 1
              /\ IsSplit(allocationSteps[k]) =>
                    /\ IsDivisionOf(allocationSteps[k].allSubnets,
                                    allocationSteps[k].parentNetwork,
                                    allocationSteps[k].targetCIDR)
                    /\ \A r \in 1..Len(allocationSteps[k].availableNetworksAfter) :
                          heap[allocationSteps[k].availableNetworksAfter[r]].network
                             # allocationSteps[k].parentNetwork
    /\ IsWellFormed(baseNetwork.ip) =>
          \A told \in Narrations :
              \A k \in 1..Len(told) :
                  /\ told[k].numSubnets = 2^(told[k].targetCIDR - told[k].parentCIDR)
                  /\ told[k].numSubnets = Len(told[k].listed)

\* the analysis of a run that split one parent into four or more and
\* assigned another fragment directly
C19_Witness ==
    /\ IsWellFormed(baseNetwork.ip)
    /\ \E told \in Narrations :
          \E k, d \in 1..Len(told) :
              /\ told[k].numSubnets >= 4 /\ Len(told[k].listed) >= 4
              /\ told[d].numSubnets = 1 /\ told[d].borrowedBits = 0

----------------------------------------------------------------------------
(* C20 *)

\* the positions of the pool that hold a used fragment
Used == {j \in 1..Len(availableNetworks) : heap[availableNetworks[j]].used}

\* the step is an iteration of the allocation loop that went through
IsIteration == pc = "loop" /\ pc' = "loop" /\ i' = i + 1

\* C20: an iteration of the allocation loop that assigns a fragment
\* directly leaves it in the pool, marked used; every fragment that is used
\* before an iteration is in the pool after it, still used and with the
\* same network, and the iteration takes its block from an unused fragment;
\* the pool has at least as many entries after an iteration as before it;
\* and every used fragment of the pool is the block of a result.
C20_UsedFragmentsStay ==
    /\ [][IsIteration =>
             /\ \A j \in MarkedUsed \cup Used :
                   /\ \E k \in 1..Len(availableNetworks') :
                         availableNetworks'[k] = availableNetworks[j]
                   /\ heap'[availableNetworks[j]].used
                   /\ heap'[availableNetworks[j]].network
                         = heap[availableNetworks[j]].network
             /\ \E j \in 1..Len(availableNetworks) \ Used : ChosenBy(j)
             /\ Len(availableNetworks') >= Len(availableNetworks)]_vars
    /\ [](pc = "loop" =>
             \A j \in Used :
                 \E k \in 1..Len(results) :
                     results[k].network = heap[availableNetworks[j]].network)

\* a fragment assigned directly at the second step is in the pool, used,
\* after a third step that split another fragment
C20_Witness ==
    /\ pc = "loop" /\ Len(allocationSteps) = 3
    /\ ~IsSplit(allocationSteps[2]) /\ IsSplit(allocationSteps[3])
    /\ \E j \in Used :
          heap[availableNetworks[j]].network = allocationSteps[2].parentNetwork

----------------------------------------------------------------------------
(* C21 *)

\* the fragment at position j of the pool is stored where the order of the
\* pool allows it before the one at position k
IsInPoolOrder(j, k) ==
    /\ heap[availableNetworks[j]].used => heap[availableNetworks[k]].used
    /\ (~heap[availableNetworks[j]].used /\ ~heap[availableNetworks[k]].used) =>
          /\ AddrLeq(FirstOf(j), FirstOf(k))
          /\ FirstOf(j) = FirstOf(k) =>
                heap[availableNetworks[j]].network.cidr.n
                   <= heap[availableNetworks[k]].network.cidr.n

\* C21: between the iterations of the allocation loop (base address of four
\* octets 0..255) the pool is ordered: every unused fragment is stored before
\* every used one, and the unused fragments are in ascending order of
\* network address, of ascending prefix where the addresses are equal.
C21_PoolIsOrdered ==
    (pc = "loop" /\ IsWellFormed(baseNetwork.ip)) =>
        \A j, k \in 1..Len(availableNetworks) : j < k => IsInPoolOrder(j, k)

\* a direct assignment and then a split under "last": a child put back by
\* the split is stored before the used fragment, which has a lower address
C21_Witness ==
    /\ pc = "loop" /\ IsWellFormed(baseNetwork.ip) /\ Len(allocationSteps) = 3
    /\ ~IsSplit(allocationSteps[2]) /\ IsSplit(allocationSteps[3])
    /\ strategy = "last"
    /\ \E j, k \in 1..Len(availableNetworks) :
          /\ j < k
          /\ ~heap[availableNetworks[j]].used /\ heap[availableNetworks[k]].used
          /\ heap[availableNetworks[j]].network.cidr.n = allocationSteps[3].targetCIDR
          /\ ~AddrLeq(FirstOf(j), FirstOf(k))

----------------------------------------------------------------------------
(* C22 *)

\* the fragments a recorded snapshot shows now: the snapshot is a copy of
\* the list of references, read through the objects as they are now
Shown(snapshot) == [j \in 1..Len(snapshot) |-> heap[snapshot[j]]]

\* what the snapshot shows after the step being taken
ShownNext(snapshot) == [j \in 1..Len(snapshot) |-> heap'[snapshot[j]]]

\* C22: the availableNetworksBefore of the step an iteration records shows
\* the pool as it was before the iteration, its availableNetworksAfter the
\* pool as it is after it; what the snapshots of the steps recorded earlier
\* show is not changed by an iteration; and in every recorded step the
\* parent is shown unused in availableNetworksBefore.
C22_SnapshotsShowThePoolAsItWas ==
    /\ [][IsIteration =>
             /\ ShownNext(allocationSteps'[Len(allocationSteps')].availableNetworksBefore)
                   = Deref(availableNetworks)
             /\ ShownNext(allocationSteps'[Len(allocationSteps')].availableNetworksAfter)
                   = ShownNext(availableNetworks')
             /\ \A k \in 1..Len(allocationSteps) :
                   /\ ShownNext(allocationSteps'[k].availableNetworksBefore)
                         = Shown(allocationSteps[k].availableNetworksBefore)
                   /\ ShownNext(allocationSteps'[k].availableNetworksAfter)
                         = Shown(allocationSteps[k].availableNetworksAfter)]_vars
    /\ [](pc = "loop" =>
             \A k \in 1..Len(allocationSteps) :
                 \E j \in 1..Len(allocationSteps[k].availableNetworksBefore) :
                     /\ heap[allocationSteps[k].availableNetworksBefore[j]].network
                           = allocationSteps[k].parentNetwork
                     /\ ~heap[allocationSteps[k].availableNetworksBefore[j]].used)

\* what does hold of the snapshots: the references they list, and the
\* networks of the fragments listed, stay as recorded
SnapshotsKeepTheirFragments ==
    [][IsIteration =>
          /\ allocationSteps'[Len(allocationSteps')].availableNetworksBefore
                = availableNetworks
          /\ \A k \in 1..Len(allocationSteps) :
                /\ allocationSteps'[k] = allocationSteps[k]
                /\ \A j \in 1..Len(allocationSteps[k].availableNetworksAfter) :
                      heap'[allocationSteps[k].availableNetworksAfter[j]].network
                         = heap[allocationSteps[k].availableNetworksAfter[j]].network]_vars

----------------------------------------------------------------------------
(* C23 *)

\* 2^(32 - p) - 1 as an address-sized number
Span(p) ==
    IF p <= 16 THEN [hi |-> 2^(16 - p) - 1, lo |-> Limb - 1]
    ELSE [hi |-> 0, lo |-> 2^(32 - p) - 1]

\* a + b without wrapping: hi >= Limb when the sum does not fit 32 bits
AddrAdd(a, b) ==
    [hi |-> a.hi + b.hi + ((a.lo + b.lo) \div Limb), lo |-> (a.lo + b.lo) % Limb]

AddrLess(a, b) == AddrLeq(a, b) /\ a # b

\* the mask of p one bits followed by 32 - p zero bits
MaskOf(p) ==
    [hi |-> IF p >= 16 THEN Limb - 1 ELSE Limb - 2^(16 - p),
     lo |-> IF p <= 16 THEN 0 ELSE Limb - 2^(32 - p)]

\* the addresses of a result entry are what its network address n and
\* prefix p give
HasAddressesOfItsBlock(r) ==
    /\ r.network.ip = r.networkAddress /\ r.network.cidr.n = r.cidr
    /\ Addr(r.broadcast.ip) = AddrAdd(Addr(r.networkAddress), Span(r.cidr))
    /\ Addr(r.firstIP.ip) = AddrSucc(Addr(r.networkAddress))
    /\ AddrSucc(Addr(r.lastIP.ip)) = Addr(r.broadcast.ip)
    /\ r.usableHosts = Capacity(r.cidr)
    /\ AddrLess(Addr(r.networkAddress), Addr(r.firstIP.ip))
    /\ AddrLeq(Addr(r.firstIP.ip), Addr(r.lastIP.ip))
    /\ AddrLess(Addr(r.lastIP.ip), Addr(r.broadcast.ip))
    /\ Addr(r.subnetMask) = MaskOf(r.cidr)
    /\ r.firstIP.cidr.n = r.cidr /\ r.lastIP.cidr.n = r.cidr /\ r.broadcast.cidr.n = r.cidr

\* C23: every result entry (base address of four octets 0..255) with network
\* address n and prefix p has, as unsigned 32-bit values, broadcast
\* n + 2^(32-p) - 1, firstIP n + 1, lastIP broadcast - 1, usableHosts
\* 2^(32-p) - 2, n < firstIP <= lastIP < broadcast, and the subnet mask of
\* p one bits.
C23_AddressesOfEveryResult ==
    IsWellFormed(baseNetwork.ip) =>
        \A k \in 1..Len(results) : HasAddressesOfItsBlock(results[k])

\* the same for the results of a base network without host bits set
C23_AddressesOfAlignedResults ==
    (/\ IsWellFormed(baseNetwork.ip) /\ ~baseNetwork.cidr.nan
     /\ baseNetwork.cidr.n \in 1..30
     /\ Addr(baseNetwork.ip) = RangeOfNetwork(baseNetwork).first) =>
        \A k \in 1..Len(results) : HasAddressesOfItsBlock(results[k])

----------------------------------------------------------------------------
(* C24 *)

\* C24: every call that has begun ends, with a record that it returned or
\* threw; the loop has taken one iteration per requirement passed, never
\* more than there are positive counts in the input; an iteration moves to
\* the next requirement of the sorted list, records its step for that
\* requirement, takes at most one fragment out of the pool and puts back
\* fragments of the target prefix only; and no requirement has two steps.
C24_CallsEndWithinOneStepPerRequirement ==
    /\ (fn # "none") ~> (fn = "none")
    /\ [][(fn # "none" /\ fn' = "none") =>
             /\ Len(calls') = Len(calls) + 1
             /\ calls'[Len(calls')].status \in {"returned", "thrown"}]_vars
    /\ [](pc = "loop" =>
             /\ i <= Cardinality(PositivePositions)
             /\ Len(allocationSteps) = i /\ Len(results) = i
             /\ \A a, b \in 1..Len(allocationSteps) :
                   a # b => allocationSteps[a].requirement.originalIndex
                               # allocationSteps[b].requirement.originalIndex)
    /\ [][(pc = "loop" /\ pc' = "loop") =>
             /\ i' = i + 1
             /\ allocationSteps'[Len(allocationSteps')].requirement
                   = sortedRequirements[i + 1]
             /\ Cardinality(TakenOut) <= 1
             /\ \A k \in PutIn :
                   heap'[availableNetworks'[k]].network.cidr.n
                      = allocationSteps'[Len(allocationSteps')].targetCIDR]_vars

\* a call has ended after three iterations, one of which split a fragment
\* into eight
C24_Witness ==
    /\ fn = "none" /\ calls # <<>>
    /\ calls[Len(calls)].fn = "generateDetailedAnalysis"
    /\ calls[Len(calls)].status = "returned" /\ Len(calls[Len(calls)].value) = 3
    /\ \E k \in 1..3 : calls[Len(calls)].value[k].borrowedBits = 3

----------------------------------------------------------------------------
(* C25 *)

\* generateDetailedAnalysis stands before a requirement that cannot be placed
IsAnalysisBeforeFailure ==
    /\ fn = "generateDetailedAnalysis" /\ pc = "loop" /\ i < Len(sortedRequirements)
    /\ \/ ~IsSatisfiable(sortedRequirements[i + 1].hosts)
       \/ NoFragmentFits(PrefixFor(sortedRequirements[i + 1].hosts))

\* the error the allocation fails with before the requirement of h hosts
FailureFor(h) ==
    IF IsSatisfiable(h) THEN "InsufficientSpace" ELSE "UnsatisfiableHostCount"

\* the calls of generateDetailedAnalysis that have ended
EndedAnalyses == {c \in 1..Len(calls) : calls[c].fn = "generateDetailedAnalysis"}

\* C25: when the allocation fails in generateDetailedAnalysis (with
\* UnsatisfiableHostCount or InsufficientSpace), the call returns: its
\* report carries the failure as a message and the narration of no step,
\* whatever steps went before; no call of generateDetailedAnalysis throws,
\* and a report with a message narrates nothing.
C25_AnalysisReportsFailureInline ==
    /\ [][IsAnalysisBeforeFailure =>
             calls' = Append(calls, [fn     |-> "generateDetailedAnalysis",
                                     status |-> "returned",
                                     error  |-> FailureFor(sortedRequirements[i + 1].hosts),
                                     value  |-> <<>>])]_vars
    /\ [](\A c \in EndedAnalyses :
             /\ calls[c].status = "returned"
             /\ calls[c].error # "" => calls[c].value = <<>>)

\* an analysis has ended with InsufficientSpace as its message after two
\* requirements had been placed
C25_Witness ==
    /\ fn = "none" /\ calls # <<>>
    /\ calls[Len(calls)].fn = "generateDetailedAnalysis"
    /\ calls[Len(calls)].status = "returned"
    /\ calls[Len(calls)].error = "InsufficientSpace"
    /\ calls[Len(calls)].value = <<>>
    /\ Len(allocationSteps) = 2

----------------------------------------------------------------------------
(* C26 *)

\* the base network is one calculateVLSM accepts, of four octets 0..255
IsAcceptedBase ==
    /\ IsWellFormed(baseNetwork.ip)
    /\ ~baseNetwork.cidr.nan /\ baseNetwork.cidr.n \in 1..30

\* C26: for every accepted base network, with or without host bits set,
\* the networkAddress of every result is the first address of the block of
\* the result's prefix that holds it (its low 32 - p bits are zero).
C26_NetworkAddressIsAligned ==
    IsAcceptedBase =>
        \A k \in 1..Len(results) :
            Addr(results[k].networkAddress)
               = BlockFirst(Addr(results[k].networkAddress), results[k].cidr)

\* the same for the results that are children of a split, and for base
\* networks without host bits set
C26_AlignedUnlessUnalignedBaseAssignedWhole ==
    IsAcceptedBase =>
        \A k \in 1..Len(results) :
            \/ Addr(results[k].networkAddress)
                  = BlockFirst(Addr(results[k].networkAddress), results[k].cidr)
            \/ /\ results[k].network = baseNetwork
               /\ Addr(baseNetwork.ip) # RangeOfNetwork(baseNetwork).first

----------------------------------------------------------------------------
(* C27 *)

\* a quarter of the size of the block of prefix p, for p in 1..30
QuarterSize(p) == 2^(30 - p)

\* the sum of QuarterSize over the blocks the host counts at the positions
\* S of the input call for
RECURSIVE SumOfQuarterSizes(_)
SumOfQuarterSizes(S) ==
    IF S = {} THEN 0
    ELSE QuarterSize(PrefixFor(hostRequirements[CHOOSE k \in S : TRUE].n))
            + SumOfQuarterSizes(S \ {CHOOSE k \in S : TRUE})

\* an accepted base network and a list with a positive count, every
\* positive count within what a /1 can hold
HasValidArguments ==
    /\ IsAcceptedBase
    /\ PositivePositions # {}
    /\ \A k \in PositivePositions : IsSatisfiable(hostRequirements[k].n)

\* the blocks the list calls for add up to more than the base network
ExceedsBase == SumOfQuarterSizes(PositivePositions) > QuarterSize(baseNetwork.cidr.n)

\* C27: for an accepted base network and satisfiable requirements, under
\* either strategy, calculateVLSM fails with InsufficientSpace exactly when
\* the sizes of the blocks the requirements call for add up to more than
\* the size of the base network; otherwise it returns a block for every
\* requirement.
C27_FailsExactlyWhenSumExceedsBase ==
    HasValidArguments =>
        \A c \in 1..Len(calls) :
            calls[c].fn = "calculateVLSM" =>
                IF ExceedsBase
                THEN calls[c].status = "thrown" /\ calls[c].error = "InsufficientSpace"
                ELSE /\ calls[c].status = "returned"
                     /\ Len(calls[c].value) = Cardinality(PositivePositions)

\* three requirements that fill the base network exactly were all placed
\* under "last"
C27_Witness ==
    /\ HasValidArguments /\ strategy = "last"
    /\ Cardinality(PositivePositions) = 3
    /\ SumOfQuarterSizes(PositivePositions) = QuarterSize(baseNetwork.cidr.n)
    /\ calls # <<>> /\ calls[1].status = "returned" /\ Len(calls[1].value) = 3

----------------------------------------------------------------------------
(* C28 *)

\* the base network is accepted and its address has no host bits set
IsAlignedBase ==
    /\ IsAcceptedBase
    /\ Addr(baseNetwork.ip) = RangeOfNetwork(baseNetwork).first

\* C28: under "first", for an accepted base network without host bits set,
\* the blocks assigned so far, in the order the requirements were
\* processed, lie one after the other from the start of the base network:
\* the first block starts at the base network's address, and every next
\* one at the address after the broadcast address of the one before, each
\* block of the size of its prefix.
C28_FirstPacksFromTheStart ==
    (pc = "loop" /\ strategy = "first" /\ IsAlignedBase) =>
        \A k \in 1..Len(results) :
            /\ Addr(results[k].broadcast.ip)
                  = AddrAdd(Addr(results[k].networkAddress), Span(results[k].cidr))
            /\ Addr(results[k].networkAddress)
                  = IF k = 1 THEN Addr(baseNetwork.ip)
                    ELSE AddrSucc(Addr(results[k - 1].broadcast.ip))

\* three blocks of three sizes have been assigned under "first"
C28_Witness ==
    /\ pc = "loop" /\ strategy = "first" /\ IsAlignedBase
    /\ Len(results) = 3
    /\ results[1].cidr < results[2].cidr /\ results[2].cidr < results[3].cidr

----------------------------------------------------------------------------
(* C29 *)

\* the positions of the pool that hold an unused fragment
Unused == {j \in 1..Len(availableNetworks) : ~heap[availableNetworks[j]].used}

\* the comparisons of the search and of the sort find the fragments at
\* positions j and k at the same address
IsAddressTie(j, k) ==
    \/ NEq(ipToInt(heap[availableNetworks[j]].network.ip),
           ipToInt(heap[availableNetworks[k]].network.ip))
    \/ NEq(ipToInt(getNetworkAddress(heap[availableNetworks[j]].network.ip,
                                     heap[availableNetworks[j]].network.cidr.n)),
           ipToInt(getNetworkAddress(heap[availableNetworks[k]].network.ip,
                                     heap[availableNetworks[k]].network.cidr.n)))

\* C29: between the iterations of the allocation loop no two unused
\* fragments of the pool have the same network address, as text or as the
\* search and the sort compare them, and for a base address of four octets
\* 0..255 the ranges of the unused fragments are pairwise disjoint.
C29_UnusedFragmentsNeverTie ==
    pc = "loop" =>
        \A j, k \in Unused :
            j # k =>
                /\ heap[availableNetworks[j]].network.ip
                      # heap[availableNetworks[k]].network.ip
                /\ ~IsAddressTie(j, k)
                /\ IsWellFormed(baseNetwork.ip) =>
                      AreDisjoint(RangeOfNetwork(heap[availableNetworks[j]].network),
                                  RangeOfNetwork(heap[availableNetworks[k]].network))

\* the pool holds unused fragments of two sizes, three or more in all
C29_Witness ==
    /\ pc = "loop" /\ Cardinality(Unused) >= 3
    /\ \E j, k \in Unused :
          heap[availableNetworks[j]].network.cidr.n
             < heap[availableNetworks[k]].network.cidr.n

----------------------------------------------------------------------------
(* C30 *)

\* the iteration being taken ends the call with InsufficientSpace
FailsForSpace ==
    /\ pc = "loop" /\ Len(calls') = Len(calls) + 1
    /\ calls'[Len(calls')].error = "InsufficientSpace"

\* C30: the target prefixes of the steps never decrease; once a step has
\* been taken, every unused fragment of the pool has a prefix <= the prefix
\* the next requirement calls for; so an iteration after the first fails
\* for space exactly when the pool holds no unused fragment, and the first
\* iteration exactly when the target prefix is smaller than the base
\* network's.
C30_PrefixesNeverDecrease ==
    /\ [](\A k \in 1..Len(allocationSteps) - 1 :
             allocationSteps[k].targetCIDR <= allocationSteps[k + 1].targetCIDR)
    /\ [](\A k \in 1..Len(sortedRequirements) - 1 :
             IsSatisfiable(sortedRequirements[k].hosts) =>
                /\ IsSatisfiable(sortedRequirements[k + 1].hosts)
                /\ PrefixFor(sortedRequirements[k].hosts)
                      <= PrefixFor(sortedRequirements[k + 1].hosts))
    /\ []((pc = "loop" /\ i >= 1 /\ i < Len(sortedRequirements)) =>
             /\ IsSatisfiable(sortedRequirements[i + 1].hosts)
             /\ \A j \in Unused :
                   heap[availableNetworks[j]].network.cidr.n
                      <= PrefixFor(sortedRequirements[i + 1].hosts))
    /\ [][(pc = "loop" /\ i >= 1 /\ i < Len(sortedRequirements)) =>
             (FailsForSpace <=> Unused = {})]_vars
    /\ [][(pc = "loop" /\ i = 0 /\ 0 < Len(sortedRequirements)
              /\ IsSatisfiable(sortedRequirements[1].hosts)) =>
             (FailsForSpace <=>
                 PrefixFor(sortedRequirements[1].hosts) < baseNetwork.cidr.n)]_vars

\* a call has failed for space at its third requirement, the pool holding
\* used fragments only
C30_Witness ==
    /\ fn = "none" /\ calls # <<>>
    /\ calls[Len(calls)].error = "InsufficientSpace"
    /\ Len(allocationSteps) = 2
    /\ availableNetworks # <<>> /\ Unused = {}

====
